---------------------------- MODULE Spec2Model ----------------------------
(***************************************************************************)
(* A model of ModelCache (invokeai/backend/model_manager/load/model_cache/ *)
(* model_cache_default.py): the RAM cache of models with its ledger        *)
(* (_cached_models), its recency stack (_cache_stack), the lock counts of  *)
(* the cache records and the optional CacheStats.                          *)
(*                                                                         *)
(* Sizes are in units: one unit stands for the same number of bytes in     *)
(* every size, and max_cache_size * GIG is max_cache_size units.           *)
(***************************************************************************)
EXTENDS Integers, Sequences, FiniteSets, TLC

(***************************************************************************)
(* Bounds of the model.                                                    *)
(***************************************************************************)
\* The number of calls a run makes.
MaxCalls == 5

\* The number of calls a run makes on a cache that is already in use.
WarmCalls == 1

\* The number of calls the threads of a concurrent run make.
MaxConcCalls == 3

\* The number of calls a run makes on a DiskImageStorage.
MaxImageCalls == 7

\* The image names callers use, a new name being the first that is unused.
ImageNames == <<"a", "b", "c", "d", "e", "f", "g", "h">>

\* The cache keys callers use.
Keys == {"A", "B", "C"}

\* The callers (threads) of the cache; each holds at most one locker.
Threads == {"t1", "t2"}

\* The model handles the loaders produce.  name identifies the handle and
\* the data of its weights, params are the names of its weights;
\* is_module: it is a torch.nn.Module (it has state_dict and
\* load_state_dict); has_to: it has a `to` method.
Models ==
  { [name |-> "m2",  size |-> 2,  params |-> {"w"},
     is_module |-> TRUE, has_to |-> TRUE],
    [name |-> "m4",  size |-> 4,  params |-> {"w", "b"},
     is_module |-> TRUE, has_to |-> TRUE],
    [name |-> "m12", size |-> 12, params |-> {"w", "b"},
     is_module |-> TRUE, has_to |-> TRUE] }

\* The statements of move_model_to_device a transfer can fail at.
FailPoints == {"load_state_dict", "to"}

\* The sizes asked of make_room and offload_unlocked_models.
RequestSizes == {0, 4, 6}

(***************************************************************************)
(* Configuration of the cache (ModelCache.__init__).                       *)
(***************************************************************************)
\* self._max_cache_size, in units.
max_cache_size == 10

\* self._max_vram_cache_size, in units.
max_vram_cache_size == 8

\* self._lazy_offloading = lazy_offloading and max_vram_cache_size > 0
lazy_offloading == TRUE

storage_device == "cpu"

execution_device == "cuda"

(***************************************************************************)
(* Cache records live in a heap: a record stays alive while a locker or a  *)
(* running call refers to it, also after it left the ledger.  A record id  *)
(* is <<key, slot>>.                                                       *)
(***************************************************************************)
Slots == 1 .. (1 + 2 * Cardinality(Threads))

RecIds == Keys \X Slots

NoRec == <<"-", 0>>

Free == [key |-> "-"]

None == "None"

\* state_dict is None: a dict of no tensor
NoStateDict == << >>

\* self._stats is None
NoStats == [attached |-> FALSE]

NoLocker == [rec |-> NoRec, moved |-> FALSE]

VARIABLES
  cached_models,   \* self._cached_models: the ordered dict, as the sequence
                   \* of its values (record ids) in insertion order
  cache_stack,     \* self._cache_stack: keys, least recently used first
  heap,            \* the CacheRecord objects: RecIds -> record or Free
  stats,           \* self._stats: NoStats or a CacheStats
  locker,          \* the ModelLocker each caller holds, or NoLocker
  last,            \* the call that returned last, and how it ended
  touched,         \* history: the resident keys in the order of their
                   \* last touch (first put or successful get)
  calls,           \* history: the number of calls made
  thr,             \* the frame of the call each thread is running
  image_cache,     \* DiskImageStorage.__cache: the paths it holds an image of
  cache_ids,       \* DiskImageStorage.__cache_ids: the queue of paths
  files            \* the names of the image files in the output folder

vars == <<cached_models, cache_stack, heap, stats, locker, last, touched, calls, thr,
          image_cache, cache_ids, files>>

(***************************************************************************)
(* Sequences, dicts and lists as Python has them.                          *)
(***************************************************************************)
Range(s) == {s[i] : i \in 1 .. Len(s)}

\* list.index(x) + 1 for x in s
IndexOf(s, x) == CHOOSE i \in 1 .. Len(s) : s[i] = x /\ \A j \in 1 .. (i - 1) : s[j] # x

\* list.remove(x) for x in s: the first occurrence goes
RemoveFirst(s, x) ==
  LET i == IndexOf(s, x)
  IN  SubSeq(s, 1, i - 1) \o SubSeq(s, i + 1, Len(s))

\* key in self._cached_models
HasKey(cm, k) == \E i \in 1 .. Len(cm) : cm[i][1] = k

\* self._cached_models[key]
Lookup(cm, k) == cm[CHOOSE i \in 1 .. Len(cm) : cm[i][1] = k]

\* del self._cached_models[key]
DictDel(cm, k) == SelectSeq(cm, LAMBDA r : r[1] # k)

\* self._cached_models[key] = record: a new key goes last, an old one
\* keeps its place
DictSet(cm, k, rid) ==
  IF HasKey(cm, k)
  THEN [i \in 1 .. Len(cm) |-> IF cm[i][1] = k THEN rid ELSE cm[i]]
  ELSE Append(cm, rid)

RECURSIVE SumSizes(_, _)
SumSizes(hp, rids) ==
  IF rids = {} THEN 0
  ELSE LET r == CHOOSE x \in rids : TRUE
       IN  hp[r].size + SumSizes(hp, rids \ {r})

\* The cache as one value: cm the ledger, st the stack, hp the records,
\* stats the CacheStats.
Cache == [cm |-> cached_models, st |-> cache_stack, hp |-> heap, stats |-> stats]


(***************************************************************************)
(* CacheRecord, CacheStats and the size estimator.                         *)
(***************************************************************************)
\* calc_model_size_by_data(logger, model)
calc_model_size_by_data(model) == model.size

\* CacheRecord.locked
locked(rec) == rec.locks > 0

\* The tensors of a handle as the loader made it: one tensor for each
\* weight name, in the storage device.
weights_of(model) ==
  [n \in model.params |-> [data |-> <<model.name, n>>, device |-> storage_device]]

\* CacheRecord(key=key, model=model, device=self.storage_device,
\*             state_dict=state_dict, size=size): loaded and _locks start
\* at False and 0.  weights are the tensors the handle (record.model) holds
\* now.
CacheRecord(key, model, device, state_dict, size) ==
  [key |-> key, model |-> model, device |-> device, state_dict |-> state_dict,
   size |-> size, loaded |-> FALSE, locks |-> 0, weights |-> weights_of(model)]

\* A new CacheStats: the counters ModelCache writes (cache_size, in_cache
\* and loaded_model_sizes are written by get and read by no cache code)
CacheStats == [hits |-> 0, misses |-> 0, high_watermark |-> 0, cleared |-> 0]

Max(a, b) == IF a > b THEN a ELSE b

(***************************************************************************)
(* ModelCache.cache_size, _delete_cache_entry, make_room.                  *)
(* An operation on the cache c yields [c |-> the cache after it,           *)
(* exc |-> None or the exception it raised].                               *)
(***************************************************************************)
cache_size(c) == SumSizes(c.hp, Range(c.cm))

\* Mutant: the entry leaves the ledger and its key stays in the stack.
delete_cache_entry_keeps_stack(c, rid) ==
  LET key == c.hp[rid].key
  IN  IF ~HasKey(c.cm, key)
      THEN [c |-> c, exc |-> "KeyError"]
      ELSE [c |-> [c EXCEPT !.cm = DictDel(c.cm, key)], exc |-> None]

delete_cache_entry(c, rid) ==
  LET key == c.hp[rid].key
  IN  IF key \notin Range(c.st)
      THEN [c |-> c, exc |-> "ValueError"]
      ELSE LET c1 == [c EXCEPT !.st = RemoveFirst(c.st, key)]
           IN  IF ~HasKey(c1.cm, key)
               THEN [c |-> c1, exc |-> "KeyError"]
               ELSE [c |-> [c1 EXCEPT !.cm = DictDel(c1.cm, key)], exc |-> None]

\* Mutants of the loop test: one that leaves the last key of the stack out,
\* one that goes on when the request fits exactly.
room_needed_skips_last(c, current_size, bytes_needed, pos) ==
  current_size + bytes_needed > max_cache_size /\ pos + 1 < Len(c.st)

room_needed_at_ceiling(c, current_size, bytes_needed, pos) ==
  current_size + bytes_needed >= max_cache_size /\ pos < Len(c.st)

\* while current_size + bytes_needed > maximum_size and pos < len(self._cache_stack)
room_needed(c, current_size, bytes_needed, pos) ==
  current_size + bytes_needed > max_cache_size /\ pos < Len(c.st)

\* Mutant: the stack read from its most recent end.
victim_key_mru(c, pos) == c.st[Len(c.st) - pos]

\* model_key = self._cache_stack[pos]
victim_key(c, pos) == c.st[pos + 1]

\* Mutants of the lock test: the `not` dropped, and no test at all.
evictable_inverted(rec) == locked(rec)

evictable_always(rec) == TRUE

\* if not cache_entry.locked
evictable(rec) == ~locked(rec)

\* What one pass of the loop, or the collection after it, did: ev is "del"
\* (the entry of key was removed), "skip" (it is locked, pos += 1) or "gc"
\* (gc.collect()); current_size is the local of make_room after the pass
\* and cache_size what cache_size() would return then.
Event(ev, key, current_size, c) ==
  [ev |-> ev, key |-> key, current_size |-> current_size,
   cache_size |-> cache_size(c)]

\* Mutant: the size of the removed entry is not taken off.
size_after_removal_kept(current_size, rec) == current_size

\* current_size -= cache_entry.size
size_after_removal(current_size, rec) == current_size - rec.size

RECURSIVE make_room_loop(_, _, _, _, _)
make_room_loop(c, bytes_needed, current_size, pos, models_cleared) ==
  IF ~room_needed(c, current_size, bytes_needed, pos)
  THEN [c |-> c, exc |-> None, models_cleared |-> models_cleared, trace |-> <<>>]
  ELSE LET model_key == victim_key(c, pos)
       IN  IF ~HasKey(c.cm, model_key)
           THEN [c |-> c, exc |-> "KeyError", models_cleared |-> models_cleared,
                 trace |-> <<>>]
           ELSE LET rid == Lookup(c.cm, model_key)
                IN  IF evictable(c.hp[rid])
                    THEN LET d == delete_cache_entry(c, rid)
                             size == size_after_removal(current_size, c.hp[rid])
                         IN  IF d.exc # None
                             THEN [c |-> d.c, exc |-> d.exc,
                                   models_cleared |-> models_cleared + 1,
                                   trace |-> <<>>]
                             ELSE LET r == make_room_loop(d.c, bytes_needed, size,
                                                          pos, models_cleared + 1)
                                  IN  [r EXCEPT !.trace =
                                         <<Event("del", model_key, size, d.c)>> \o @]
                    ELSE LET r == make_room_loop(c, bytes_needed, current_size,
                                                 pos + 1, models_cleared)
                         IN  [r EXCEPT !.trace =
                                <<Event("skip", model_key, current_size, c)>> \o @]

\* Mutant: one collection for every entry that was removed.
gc_collect_each(c, current_size, models_cleared) ==
  [i \in 1 .. models_cleared |-> Event("gc", "-", current_size, c)]

\* if models_cleared > 0: ... gc.collect()
gc_collect(c, current_size, models_cleared) ==
  IF models_cleared > 0 THEN <<Event("gc", "-", current_size, c)>> ELSE <<>>

\* What follows the loop, r its result: stats.cleared, gc.collect()
make_room_end(r) ==
  IF r.exc # None THEN [c |-> r.c, exc |-> r.exc, trace |-> r.trace]
  ELSE [c |-> IF r.models_cleared > 0 /\ r.c.stats # NoStats
              THEN [r.c EXCEPT !.stats.cleared = r.models_cleared]
              ELSE r.c,
        exc |-> None,
        trace |-> r.trace \o gc_collect(r.c, cache_size(r.c), r.models_cleared)]

make_room(c, size) == make_room_end(make_room_loop(c, size, cache_size(c), 0, 0))

(***************************************************************************)
(* ModelCache.put and ModelCache.get.                                      *)
(***************************************************************************)
\* The record object a put creates: a cell of the heap nothing refers to.
NewRec(hp, key) ==
  <<key, CHOOSE i \in Slots : hp[<<key, i>>] = Free
                              /\ \A j \in 1 .. (i - 1) : hp[<<key, j>>] # Free>>

\* state_dict = model.state_dict() if isinstance(model, torch.nn.Module) else None
state_dict_of(model) == IF model.is_module THEN weights_of(model) ELSE NoStateDict

\* self._cached_models[key] = cache_record; self._cache_stack.append(key)
put_insert(c, key, rid, rec) ==
  [c EXCEPT !.hp[rid] = rec, !.cm = DictSet(c.cm, key, rid), !.st = Append(c.st, key)]

\* Mutant: a put of a resident key refreshes its place in the stack.
put_present_refreshes(c, key) ==
  [c |-> [c EXCEPT !.st = Append(RemoveFirst(c.st, key), key)], exc |-> None]

\* if key in self._cached_models: return
put_present(c, key) == [c |-> c, exc |-> None]

\* Mutant: the ceiling enforced, a put that does not fit is refused.
put_rejecting(c, key, model) ==
  IF HasKey(c.cm, key)
  THEN [c |-> c, exc |-> None]
  ELSE LET size == calc_model_size_by_data(model)
           m == make_room(c, size)
       IN  IF m.exc # None \/ cache_size(m.c) + size > max_cache_size
           THEN [c |-> m.c, exc |-> "CapacityFault"]
           ELSE LET rid == NewRec(m.c.hp, key)
                    rec == CacheRecord(key, model, storage_device,
                                       state_dict_of(model), size)
                IN  [c |-> put_insert(m.c, key, rid, rec), exc |-> None]

put(c, key, model) ==
  IF HasKey(c.cm, key)
  THEN put_present(c, key)
  ELSE LET size == calc_model_size_by_data(model)
           m == make_room(c, size)
       IN  IF m.exc # None
           THEN m
           ELSE LET rid == NewRec(m.c.hp, key)
                    rec == CacheRecord(key, model, storage_device,
                                       state_dict_of(model), size)
                IN  [c |-> put_insert(m.c, key, rid, rec), exc |-> None]

\* Mutant: the miss counted as a hit.
get_miss_counts_hit(c, key) ==
  [c |-> IF c.stats # NoStats THEN [c EXCEPT !.stats.hits = @ + 1] ELSE c,
   exc |-> "IndexError", rec |-> NoRec]

\* the miss branch of get: the counter, then IndexError
get_miss(c, key) ==
  [c |-> IF c.stats # NoStats THEN [c EXCEPT !.stats.misses = @ + 1] ELSE c,
   exc |-> "IndexError", rec |-> NoRec]

\* Mutant: the hit counted and the high watermark left alone.
get_stats_counts_only(c, key) ==
  IF c.stats # NoStats THEN [c EXCEPT !.stats.hits = @ + 1] ELSE c

\* self.stats.hits += 1 and the "more stats" block
get_stats(c, key) ==
  IF c.stats # NoStats
  THEN [c EXCEPT !.stats.hits = @ + 1,
                 !.stats.high_watermark = Max(@, cache_size(c))]
  ELSE c

\* Mutant: the key appended and its old place kept.
move_to_top_keeps_old(st, key) == Append(st, key)

\* with suppress(Exception): self._cache_stack.remove(key)
\* self._cache_stack.append(key)
move_to_top(st, key) ==
  Append(IF key \in Range(st) THEN RemoveFirst(st, key) ELSE st, key)

\* Mutant: a hit brings the entry into the execution device.
get_loads_entry(c, key) ==
  IF ~HasKey(c.cm, key)
  THEN get_miss(c, key)
  ELSE LET c1 == get_stats(c, key)
           rid == Lookup(c.cm, key)
       IN  [c |-> [c1 EXCEPT !.st = move_to_top(c1.st, key),
                             !.hp[rid].device = execution_device,
                             !.hp[rid].loaded = TRUE],
            exc |-> None, rec |-> rid]

get(c, key) ==
  IF ~HasKey(c.cm, key)
  THEN get_miss(c, key)
  ELSE LET c1 == get_stats(c, key)
       IN  [c |-> [c1 EXCEPT !.st = move_to_top(c1.st, key)],
            exc |-> None, rec |-> Lookup(c.cm, key)]

(***************************************************************************)
(* ModelCache.move_model_to_device and offload_unlocked_models.            *)
(* fails: "no", or the statement at which the transfer raises (out of       *)
(* memory, a failing load_state_dict).                                     *)
(***************************************************************************)
\* torch.cuda.memory_allocated(): the size of every live handle that holds
\* tensors in the execution device
cuda_memory_allocated(c) ==
  SumSizes(c.hp, {r \in RecIds :
                   /\ c.hp[r] # Free
                   /\ \E n \in DOMAIN c.hp[r].weights :
                        c.hp[r].weights[n].device = execution_device})

\* v.to(device, copy=True)
tensor_to(v, device) == [v EXCEPT !.device = device]

\* Mutant: a load that leaves one tensor of the state dict out.
load_state_dict_drops_one(weights, state_dict) ==
  LET skipped == CHOOSE n \in DOMAIN state_dict : TRUE
  IN  [w |-> [n \in DOMAIN state_dict \ {skipped} |-> state_dict[n]], exc |-> None]

\* model.load_state_dict(state_dict, assign=True): the handle takes the
\* tensors of state_dict, which has to name the weights of the handle
load_state_dict(weights, state_dict) ==
  IF DOMAIN state_dict = DOMAIN weights
  THEN [w |-> [n \in DOMAIN state_dict |-> state_dict[n]], exc |-> None]
  ELSE [w |-> weights, exc |-> "RuntimeError"]

\* model.to(device): every tensor of the handle goes to the device
model_to(weights, device) == [n \in DOMAIN weights |-> tensor_to(weights[n], device)]

\* The except branch: the entry is deleted and the exception raised again;
\* weights are the tensors the handle is left with.
transfer_failed(c, rid, weights, exc) ==
  LET d == delete_cache_entry([c EXCEPT !.hp[rid].weights = weights], rid)
  IN  [c |-> d.c, exc |-> IF d.exc # None THEN d.exc ELSE exc]

\* Mutant: a transfer that fails records the target device and leaves the
\* entry in the ledger.
move_model_to_device_keeps_entry(c, rid, target_device, fails) ==
  LET e == c.hp[rid]
  IN  IF e.device = target_device THEN [c |-> c, exc |-> None]
      ELSE IF ~e.model.has_to THEN [c |-> c, exc |-> None]
      ELSE IF fails # "no"
      THEN [c |-> [c EXCEPT !.hp[rid].device = target_device],
            exc |-> "TransferError"]
      ELSE [c |-> [c EXCEPT !.hp[rid].weights = model_to(e.weights, target_device),
                            !.hp[rid].device = target_device],
            exc |-> None]

\* Mutant: a transfer keeps the copy it made as the snapshot of the entry.
move_model_to_device_moves_snapshot(c, rid, target_device, fails) ==
  LET e == c.hp[rid]
      new_dict == [k \in DOMAIN e.state_dict |-> tensor_to(e.state_dict[k], target_device)]
  IN  IF e.device = target_device THEN [c |-> c, exc |-> None]
      ELSE IF ~e.model.has_to THEN [c |-> c, exc |-> None]
      ELSE IF fails # "no"
      THEN transfer_failed(c, rid, e.weights, "TransferError")
      ELSE [c |-> [c EXCEPT !.hp[rid].weights = model_to(e.weights, target_device),
                            !.hp[rid].state_dict = new_dict,
                            !.hp[rid].device = target_device],
            exc |-> None]

move_model_to_device(c, rid, target_device, fails) ==
  LET e == c.hp[rid]
      new_dict == [k \in DOMAIN e.state_dict |-> tensor_to(e.state_dict[k], target_device)]
      l == IF e.state_dict = NoStateDict
           THEN [w |-> e.weights, exc |-> None]
           ELSE IF target_device = storage_device
           THEN load_state_dict(e.weights, e.state_dict)
           ELSE load_state_dict(e.weights, new_dict)
  IN  IF e.device = target_device THEN [c |-> c, exc |-> None]
      ELSE IF ~e.model.has_to THEN [c |-> c, exc |-> None]
      ELSE IF fails = "load_state_dict" /\ e.state_dict # NoStateDict
      THEN transfer_failed(c, rid, e.weights, "TransferError")
      ELSE IF l.exc # None
      THEN transfer_failed(c, rid, l.w, l.exc)
      ELSE IF fails # "no"
      THEN transfer_failed(c, rid, l.w, "TransferError")
      ELSE [c |-> [c EXCEPT !.hp[rid].weights = model_to(l.w, target_device),
                            !.hp[rid].device = target_device],
            exc |-> None]

\* What the transfer of record rid does when failing = <<record, statement>>
\* names the transfer that raises.
Fails(rid, failing) == IF failing[1] = rid THEN failing[2] ELSE "no"

\* sorted(self._cached_models.items(), key=lambda x: x[1].size): stable
RECURSIVE InsertBySize(_, _, _)
InsertBySize(hp, sorted, rid) ==
  IF sorted = <<>> THEN <<rid>>
  ELSE IF hp[Head(sorted)].size > hp[rid].size THEN <<rid>> \o sorted
  ELSE <<Head(sorted)>> \o InsertBySize(hp, Tail(sorted), rid)

\* Mutant: the items in the order of the ledger.
sorted_by_insertion(hp, cm) == cm

\* Mutant: the items in the order of the ledger, the last put first.
sorted_by_last_put(hp, cm) == [i \in DOMAIN cm |-> cm[Len(cm) + 1 - i]]

RECURSIVE SortedBySize(_, _)
SortedBySize(hp, cm) ==
  IF cm = <<>> THEN <<>>
  ELSE InsertBySize(hp, SortedBySize(hp, SubSeq(cm, 1, Len(cm) - 1)), cm[Len(cm)])

\* Mutant: no entry is offloaded.
offloadable_never(rec) == FALSE

\* Mutant: locked entries offloaded as well.
offloadable_always(rec) == TRUE

\* Mutant: the locked entries are offloaded, the unlocked ones stay.
offloadable_locked(rec) == locked(rec)

\* if not cache_entry.locked (of a loaded entry)
offloadable(rec) == ~locked(rec)

\* Mutant: an entry that is offloaded goes to the top of the stack.
offloaded_is_touched(c, rid) ==
  [c EXCEPT !.hp[rid].loaded = FALSE,
            !.st = Append(RemoveFirst(@, c.hp[rid].key), c.hp[rid].key)]

\* cache_entry.loaded = False
offloaded(c, rid) == [c EXCEPT !.hp[rid].loaded = FALSE]

RECURSIVE offload_loop(_, _, _, _, _)
offload_loop(c, items, vram_in_use, size_required, failing) ==
  IF items = <<>> \/ vram_in_use <= max_vram_cache_size
  THEN [c |-> c, exc |-> None, trace |-> <<>>]
  ELSE LET rid == Head(items)
       IN  IF ~c.hp[rid].loaded
           THEN offload_loop(c, Tail(items), vram_in_use, size_required, failing)
           ELSE IF offloadable(c.hp[rid])
           THEN LET m == move_model_to_device(c, rid, storage_device, Fails(rid, failing))
                IN  IF m.exc # None THEN [c |-> m.c, exc |-> m.exc, trace |-> <<>>]
                    ELSE LET c1 == offloaded(m.c, rid)
                             r == offload_loop(c1, Tail(items),
                                               cuda_memory_allocated(c1) + size_required,
                                               size_required, failing)
                         IN  [r EXCEPT !.trace = <<c.hp[rid].key>> \o @]
           ELSE offload_loop(c, Tail(items), vram_in_use, size_required, failing)

offload_unlocked_models(c, size_required, failing) ==
  offload_loop(c, SortedBySize(c.hp, c.cm),
               cuda_memory_allocated(c) + size_required, size_required, failing)

(***************************************************************************)
(* ModelLocker: what get returns.  Its construction takes the lock (the    *)
(* pin), lock() makes the model ready in the execution device, and its     *)
(* release gives the lock back.                                            *)
(***************************************************************************)
\* CacheRecord.lock(): self._locks += 1
record_lock(c, rid) == [c EXCEPT !.hp[rid].locks = @ + 1]

\* CacheRecord.unlock(): self._locks -= 1
record_unlock(c, rid) == [c EXCEPT !.hp[rid].locks = @ - 1]

\* release without the check: the count goes down whatever it is
release_unchecked(c, rid) == [c |-> record_unlock(c, rid), exc |-> None]

\* The release of a pin: the count goes down by one, and a release of a
\* record whose count is 0 is a fault that leaves the count alone.
release(c, rid) ==
  IF ~locked(c.hp[rid]) THEN [c |-> c, exc |-> "PinFault"]
  ELSE [c |-> record_unlock(c, rid), exc |-> None]

\* ModelLocker(cache=self, cache_entry=cache_entry)
ModelLocker(rid) == [rec |-> rid, moved |-> FALSE]

\* ModelLocker.lock(): offload what is unlocked when lazy offloading is on,
\* then move the model into the execution device and mark it loaded
locker_lock(c, rid, failing) ==
  LET o == IF lazy_offloading
           THEN offload_unlocked_models(c, c.hp[rid].size, failing)
           ELSE [c |-> c, exc |-> None]
  IN  IF o.exc # None THEN o
      ELSE LET m == move_model_to_device(o.c, rid, execution_device, Fails(rid, failing))
           IN  IF m.exc # None THEN m
               ELSE [c |-> [m.c EXCEPT !.hp[rid].loaded = TRUE], exc |-> None]

\* the release of a ModelLocker: unlock, and offload at once unless lazy
locker_release(c, rid) ==
  LET u == release(c, rid)
  IN  IF u.exc # None \/ lazy_offloading THEN u
      ELSE offload_unlocked_models(u.c, 0, <<NoRec, "-">>)

(***************************************************************************)
(* The state: the objects Python keeps alive, and the history variables.   *)
(***************************************************************************)
\* The frame of a running call: pc the statement it is at, op the call the
\* caller made, and the locals of get, put and make_room.
Frame(pc, op, key, model, size) ==
  [pc |-> pc, op |-> op, key |-> key, model |-> model, size |-> size,
   current_size |-> 0, pos |-> 0, models_cleared |-> 0, entry |-> NoRec]

Idle == Frame("idle", "-", "-", None, 0)

\* The records a running call refers to.
FrameRefs(f) == {f.entry}

Live(cm, lk, th) ==
  Range(cm) \cup {lk[t].rec : t \in Threads} \cup UNION {FrameRefs(th[t]) : t \in Threads}

\* A record nothing refers to is gone.
Collect(hp, cm, lk, th) ==
  [r \in RecIds |-> IF r \in Live(cm, lk, th) THEN hp[r] ELSE Free]

\* What is known of the call that returned last: the call and its
\* arguments, the exception it raised, the keys whose entry it removed
\* from the ledger, the records it moved to another device and the record
\* whose transfer raised.
Returned(op, key, size, exc) ==
  [op |-> op, key |-> key, size |-> size, exc |-> exc, evicted |-> {}, moved |-> {},
   failed |-> NoRec]

\* The keys whose entry is in the ledger now and not in the ledger cm.
Evicted(cm) ==
  {k \in Keys : HasKey(cached_models, k)
                /\ (HasKey(cm, k) => Lookup(cm, k) # Lookup(cached_models, k))}

\* The records hp has in another device than they are in now.
Moved(hp) ==
  {r \in RecIds : heap[r] # Free /\ hp[r] # Free /\ hp[r].device # heap[r].device}

\* The keys of touch order tch still resident in cm, k touched last.
Touch(tch, cm, k) == Append(SelectSeq(tch, LAMBDA x : x # k /\ HasKey(cm, x)), k)

Untouched(tch, cm) == SelectSeq(tch, LAMBDA x : HasKey(cm, x))

Commit(c, lk, th, ret) ==
  /\ calls < MaxCalls
  /\ calls' = calls + 1
  /\ cached_models' = c.cm
  /\ cache_stack' = c.st
  /\ stats' = c.stats
  /\ heap' = Collect(c.hp, c.cm, lk, th)
  /\ locker' = lk
  /\ thr' = th
  /\ last' = [ret EXCEPT !.evicted = Evicted(c.cm), !.moved = Moved(c.hp)]
  /\ UNCHANGED <<image_cache, cache_ids, files>>

Init ==
  /\ cached_models = <<>>
  /\ cache_stack = <<>>
  /\ heap = [r \in RecIds |-> Free]
  /\ stats = NoStats
  /\ locker = [t \in Threads |-> NoLocker]
  /\ last = Returned("init", "-", 0, None)
  /\ touched = <<>>
  /\ calls = 0
  /\ thr = [t \in Threads |-> Idle]
  /\ image_cache = {} /\ cache_ids = <<>> /\ files = {}

\* The records whose transfer a call can start: the loaded entries of the
\* ledger that are in the execution device (offload_unlocked_models) and
\* the records that lockers hold and have not moved there (lock).
Startable ==
  {r \in Range(cached_models) :
     heap[r].loaded /\ heap[r].device = execution_device}
    \cup {r \in {locker[t].rec : t \in Threads} \ {NoRec} :
            heap[r].device # execution_device}

\* failing names the record whose transfer raises and the statement that
\* raises, NoRec when none does.
Failing == {<<NoRec, "-">>} \cup (Startable \X FailPoints)

(***************************************************************************)
(* The calls, each run to its return with no other call in between.        *)
(***************************************************************************)
\* ModelCache.stats = CacheStats()
AttachStats ==
  /\ stats = NoStats
  /\ Commit([Cache EXCEPT !.stats = CacheStats], locker, thr,
            Returned("stats", "-", 0, None))
  /\ UNCHANGED touched

\* put returns: r is its result.
PutReturns(k, m, r) ==
  /\ Commit(r.c, locker, thr, Returned("put", k, m.size, r.exc))
  /\ touched' = IF HasKey(cached_models, k) \/ r.exc # None
                THEN Untouched(touched, r.c.cm)
                ELSE Touch(touched, r.c.cm, k)

Put(k, m) == PutReturns(k, m, put(Cache, k, m))

\* get returns: r is its result, and the Locker it built holds the record.
GetReturns(t, k, r) ==
  /\ Commit(IF r.exc # None THEN r.c ELSE record_lock(r.c, r.rec),
            IF r.exc # None THEN locker
            ELSE [locker EXCEPT ![t] = ModelLocker(r.rec)],
            thr, Returned("get", k, 0, r.exc))
  /\ touched' = IF r.exc # None THEN touched ELSE Touch(touched, r.c.cm, k)

Get(t, k) ==
  /\ locker[t] = NoLocker
  /\ GetReturns(t, k, get(Cache, k))

\* The lock of the Locker of record rid returns: r is its result.
LockerLockReturns(t, failing, rid, r) ==
  /\ Commit(IF r.exc # None THEN release(r.c, rid).c ELSE r.c,
            IF r.exc # None THEN [locker EXCEPT ![t] = NoLocker]
            ELSE [locker EXCEPT ![t].moved = TRUE],
            thr,
            [Returned("lock", heap[rid].key, 0, r.exc)
               EXCEPT !.failed = IF r.exc # None THEN failing[1] ELSE NoRec])
  /\ touched' = Untouched(touched, r.c.cm)

LockerLock(t, failing) ==
  /\ locker[t] # NoLocker
  /\ ~locker[t].moved
  /\ LockerLockReturns(t, failing, locker[t].rec,
                       locker_lock(Cache, locker[t].rec, failing))

\* The release of the Locker of record rid returns: r is its result.
LockerReleaseReturns(t, rid, r) ==
  /\ Commit(r.c, [locker EXCEPT ![t] = NoLocker], thr,
            Returned("unlock", heap[rid].key, 0, r.exc))
  /\ touched' = Untouched(touched, r.c.cm)

LockerRelease(t) ==
  /\ locker[t] # NoLocker
  /\ LockerReleaseReturns(t, locker[t].rec, locker_release(Cache, locker[t].rec))

\* make_room returns: r is its result.
MakeRoomReturned(n, r) ==
  /\ Commit(r.c, locker, thr, Returned("make_room", "-", n, r.exc))
  /\ touched' = Untouched(touched, r.c.cm)

MakeRoom(n) == MakeRoomReturned(n, make_room(Cache, n))

\* offload_unlocked_models returns: r is its result.
OffloadReturns(n, failing, r) ==
  /\ Commit(r.c, locker, thr,
            [Returned("offload", "-", n, r.exc)
               EXCEPT !.failed = IF r.exc # None THEN failing[1] ELSE NoRec])
  /\ touched' = Untouched(touched, r.c.cm)

OffloadUnlockedModels(n, failing) ==
  OffloadReturns(n, failing, offload_unlocked_models(Cache, n, failing))

Next ==
  \/ AttachStats
  \/ \E k \in Keys, m \in Models : Put(k, m)
  \/ \E t \in Threads, k \in Keys : Get(t, k)
  \/ \E t \in Threads, failing \in Failing : LockerLock(t, failing)
  \/ \E t \in Threads : LockerRelease(t)
  \/ \E n \in RequestSizes : MakeRoom(n)
  \/ \E n \in RequestSizes, failing \in Failing : OffloadUnlockedModels(n, failing)

Spec == Init /\ [][Next]_vars

\* A release of the entry of key k by a caller that holds no locker of it.
StrayRelease(k) ==
  /\ HasKey(cached_models, k)
  /\ LET r == release(Cache, Lookup(cached_models, k))
     IN  /\ Commit(r.c, locker, thr, Returned("release", k, 0, r.exc))
         /\ touched' = Untouched(touched, r.c.cm)

(***************************************************************************)
(* The same calls on a cache that is in use: earlier calls have put the    *)
(* keys A, B, C or the first of them, in this order, lockers have moved    *)
(* some of them into the execution device and were released, and thread t1 *)
(* may hold a locker still.  Such a ledger is above max_cache_size when    *)
(* the entries were pinned while the later ones were put.                  *)
(***************************************************************************)
\* The keys of a cache in use, in the order of their put and of their last
\* get.
WarmKeys == <<"A", "B", "C">>

\* The handles of a cache in use.
WarmModels == {m \in Models : m.size <= 4}

\* The record of an entry of a cache in use: warm, a locker has moved it
\* into the execution device; locks, the lockers that hold it.
WarmRecord(key, model, warm, locks) ==
  LET rec == CacheRecord(key, model, storage_device, state_dict_of(model),
                         calc_model_size_by_data(model))
  IN  IF warm
      THEN [rec EXCEPT !.weights = model_to(@, execution_device),
                       !.device = execution_device,
                       !.loaded = TRUE, !.locks = locks]
      ELSE [rec EXCEPT !.locks = locks]

\* The cache in use whose ledger holds the first n keys, put in the given order.
WarmCache(n, order) ==
    \E mdl \in [1 .. n -> WarmModels], warm \in [1 .. n -> BOOLEAN],
       pin \in 0 .. n, moved \in BOOLEAN :
      /\ moved => pin > 0 /\ warm[pin]
      /\ cached_models = [i \in 1 .. n |-> <<WarmKeys[order[i]], 1>>]
      /\ cache_stack = SubSeq(WarmKeys, 1, n)
      /\ heap = [r \in RecIds |->
                   IF r[2] = 1 /\ \E i \in 1 .. n : WarmKeys[i] = r[1]
                   THEN LET i == CHOOSE j \in 1 .. n : WarmKeys[j] = r[1]
                        IN  WarmRecord(r[1], mdl[i], warm[i],
                                       IF pin = i THEN 1 ELSE 0)
                   ELSE Free]
      /\ stats = NoStats
      /\ locker = [t \in Threads |->
                     IF t = "t1" /\ pin > 0
                     THEN [rec |-> <<WarmKeys[pin], 1>>, moved |-> moved]
                     ELSE NoLocker]
      /\ last = Returned("init", "-", 0, None)
      /\ touched = SubSeq(WarmKeys, 1, n)
      /\ calls = MaxCalls - WarmCalls
      /\ thr = [t \in Threads |-> Idle]
      /\ image_cache = {} /\ cache_ids = <<>> /\ files = {}

\* The keys were put in the order of their last get.
InitWarm ==
  \E n \in 0 .. Len(WarmKeys) : WarmCache(n, [i \in 1 .. n |-> i])

SpecWarm == InitWarm /\ [][Next]_vars

\* The calls of a cache in use and the releases no acquire matches.
NextPins ==
  \/ Next
  \/ \E k \in Keys : StrayRelease(k)

SpecPins == InitWarm /\ [][NextPins]_vars

\* The orders in which n keys can have been put.
PutOrders(n) == {p \in [1 .. n -> 1 .. n] : \A i, j \in 1 .. n : p[i] = p[j] => i = j}

\* A cache in use whose keys were put in any order, the gets that followed
\* leaving the recency stack in the order A, B, C.
InitOrder ==
  \E n \in 0 .. Len(WarmKeys) : \E p \in PutOrders(n) : WarmCache(n, p)

\* The calls that choose the entries to remove or to move back.
NextOrder ==
  \/ \E n \in RequestSizes : MakeRoom(n)
  \/ \E n \in RequestSizes, failing \in Failing : OffloadUnlockedModels(n, failing)

SpecOrder == InitOrder /\ [][NextOrder]_vars

(***************************************************************************)
(* The same calls run by concurrent threads.  ModelCache takes no lock, so *)
(* a thread may be pre-empted between any two statements: a step below is  *)
(* the statements of one call that run between two accesses of the ledger  *)
(* and the stack.  The lock() and the release of a locker run as one step, *)
(* and every transfer succeeds.                                            *)
(***************************************************************************)
InitConc ==
  /\ cached_models = <<>>
  /\ cache_stack = <<>>
  /\ heap = [r \in RecIds |-> Free]
  /\ stats = CacheStats
  /\ locker = [t \in Threads |-> NoLocker]
  /\ last = Returned("init", "-", 0, None)
  /\ touched = <<>>
  /\ calls = 0
  /\ thr = [t \in Threads |-> Idle]
  /\ image_cache = {} /\ cache_ids = <<>> /\ files = {}

\* A step of a running call: the cache after it, and the thread's frame.
Step(c, lk, th) ==
  /\ cached_models' = c.cm
  /\ cache_stack' = c.st
  /\ stats' = c.stats
  /\ heap' = Collect(c.hp, c.cm, lk, th)
  /\ locker' = lk
  /\ thr' = th
  /\ UNCHANGED <<touched, calls, image_cache, cache_ids, files>>

\* The call of thread t returns (exc = None) or raises exc.
Return(t, c, lk, exc) ==
  /\ Step(c, lk, [thr EXCEPT ![t] = Idle])
  /\ last' = Returned(thr[t].op, thr[t].key, thr[t].size, exc)

\* The call of thread t goes on at pc with frame f.
Goto(t, c, f, pc) ==
  /\ Step(c, locker, [thr EXCEPT ![t] = [f EXCEPT !.pc = pc]])
  /\ UNCHANGED last

Call(t, f) ==
  /\ thr[t].pc = "idle"
  /\ calls < MaxConcCalls
  /\ calls' = calls + 1
  /\ thr' = [thr EXCEPT ![t] = f]
  /\ UNCHANGED <<cached_models, cache_stack, heap, stats, locker, last, touched,
                 image_cache, cache_ids, files>>

CallGet(t, k) ==
  /\ locker[t] = NoLocker
  /\ Call(t, Frame("get_check", "get", k, None, 0))

CallPut(t, k, m) == Call(t, Frame("put_check", "put", k, m, 0))

CallMakeRoom(t, n) == Call(t, Frame("mr_start", "make_room", "-", None, n))

\* get: if key in self._cached_models: hits += 1, else: misses += 1; raise
GetCheck(t) ==
  /\ thr[t].pc = "get_check"
  /\ IF HasKey(cached_models, thr[t].key)
     THEN Goto(t, [Cache EXCEPT !.stats.hits = @ + 1], thr[t], "get_entry")
     ELSE Return(t, get_miss(Cache, thr[t].key).c, locker, "IndexError")

\* get: cache_entry = self._cached_models[key], and the "more stats" block
GetEntry(t) ==
  /\ thr[t].pc = "get_entry"
  /\ IF HasKey(cached_models, thr[t].key)
     THEN Goto(t, [Cache EXCEPT !.stats.high_watermark = Max(@, cache_size(Cache))],
               [thr[t] EXCEPT !.entry = Lookup(cached_models, thr[t].key)], "get_remove")
     ELSE Return(t, Cache, locker, "KeyError")

\* get: with suppress(Exception): self._cache_stack.remove(key)
GetRemove(t) ==
  /\ thr[t].pc = "get_remove"
  /\ Goto(t, [Cache EXCEPT !.st = IF thr[t].key \in Range(@)
                                  THEN RemoveFirst(@, thr[t].key) ELSE @],
          thr[t], "get_append")

\* get: self._cache_stack.append(key)
GetAppend(t) ==
  /\ thr[t].pc = "get_append"
  /\ Goto(t, [Cache EXCEPT !.st = Append(@, thr[t].key)], thr[t], "get_locker")

\* get: return ModelLocker(cache=self, cache_entry=cache_entry)
GetLocker(t) ==
  /\ thr[t].pc = "get_locker"
  /\ Return(t, record_lock(Cache, thr[t].entry),
            [locker EXCEPT ![t] = ModelLocker(thr[t].entry)], None)

\* put: if key in self._cached_models: return; size = ...; self.make_room(size)
PutCheck(t) ==
  /\ thr[t].pc = "put_check"
  /\ IF HasKey(cached_models, thr[t].key)
     THEN Return(t, Cache, locker, None)
     ELSE Goto(t, Cache,
               [thr[t] EXCEPT !.size = calc_model_size_by_data(thr[t].model)],
               "mr_start")

\* make_room: current_size = self.cache_size(); pos = 0; models_cleared = 0
MakeRoomStart(t) ==
  /\ thr[t].pc = "mr_start"
  /\ Goto(t, Cache, [thr[t] EXCEPT !.current_size = cache_size(Cache), !.pos = 0,
                                   !.models_cleared = 0], "mr_loop")

\* make_room: the while test, model_key = self._cache_stack[pos] and
\* cache_entry = self._cached_models[model_key]
MakeRoomLoop(t) ==
  /\ thr[t].pc = "mr_loop"
  /\ LET f == thr[t]
     IN  IF ~room_needed(Cache, f.current_size, f.size, f.pos)
         THEN Goto(t, Cache, [f EXCEPT !.entry = NoRec], "mr_end")
         ELSE IF ~HasKey(cached_models, victim_key(Cache, f.pos))
         THEN Return(t, Cache, locker, "KeyError")
         ELSE Goto(t, Cache,
                   [f EXCEPT !.entry = Lookup(cached_models, victim_key(Cache, f.pos))],
                   "mr_locked")

\* make_room: if not cache_entry.locked: ... else: pos += 1
MakeRoomLocked(t) ==
  /\ thr[t].pc = "mr_locked"
  /\ LET f == thr[t]
     IN  IF evictable(heap[f.entry])
         THEN Goto(t, Cache, f, "mr_remove")
         ELSE Goto(t, Cache, [f EXCEPT !.pos = @ + 1, !.entry = NoRec], "mr_loop")

\* make_room: current_size -= cache_entry.size; models_cleared += 1;
\* _delete_cache_entry: self._cache_stack.remove(cache_entry.key)
MakeRoomRemove(t) ==
  /\ thr[t].pc = "mr_remove"
  /\ LET f == thr[t]
         key == heap[f.entry].key
     IN  IF key \in Range(cache_stack)
         THEN Goto(t, [Cache EXCEPT !.st = RemoveFirst(@, key)],
                   [f EXCEPT !.current_size = @ - heap[f.entry].size,
                             !.models_cleared = @ + 1], "mr_del")
         ELSE Return(t, Cache, locker, "ValueError")

\* _delete_cache_entry: del self._cached_models[cache_entry.key]
MakeRoomDel(t) ==
  /\ thr[t].pc = "mr_del"
  /\ LET f == thr[t]
         key == heap[f.entry].key
     IN  IF HasKey(cached_models, key)
         THEN Goto(t, [Cache EXCEPT !.cm = DictDel(@, key)],
                   [f EXCEPT !.entry = NoRec], "mr_loop")
         ELSE Return(t, Cache, locker, "KeyError")

\* make_room: if models_cleared > 0: self.stats.cleared = models_cleared;
\* then make_room returns, to put when put called it
MakeRoomEnd(t) ==
  /\ thr[t].pc = "mr_end"
  /\ LET f == thr[t]
         c == IF f.models_cleared > 0 /\ stats # NoStats
              THEN [Cache EXCEPT !.stats.cleared = f.models_cleared] ELSE Cache
     IN  IF f.op = "put"
         THEN Goto(t, c, f, "put_insert")
         ELSE Return(t, c, locker, None)

\* put: cache_record = CacheRecord(...); self._cached_models[key] = cache_record
PutInsert(t) ==
  /\ thr[t].pc = "put_insert"
  /\ LET f == thr[t]
         rid == NewRec(heap, f.key)
         rec == CacheRecord(f.key, f.model, storage_device, state_dict_of(f.model), f.size)
     IN  Goto(t, [Cache EXCEPT !.hp[rid] = rec, !.cm = DictSet(@, f.key, rid)],
              f, "put_append")

\* put: self._cache_stack.append(key)
PutAppend(t) ==
  /\ thr[t].pc = "put_append"
  /\ Return(t, [Cache EXCEPT !.st = Append(@, thr[t].key)], locker, None)

\* The lock() and the release of the locker thread t holds.
ConcLockerLock(t) ==
  /\ thr[t].pc = "idle"
  /\ calls < MaxConcCalls
  /\ LockerLock(t, <<NoRec, "-">>)

ConcLockerRelease(t) ==
  /\ thr[t].pc = "idle"
  /\ calls < MaxConcCalls
  /\ LockerRelease(t)

NextConc ==
  \/ \E t \in Threads, k \in Keys : CallGet(t, k)
  \/ \E t \in Threads, k \in Keys, m \in Models : CallPut(t, k, m)
  \/ \E t \in Threads, n \in RequestSizes : CallMakeRoom(t, n)
  \/ \E t \in Threads : GetCheck(t)
  \/ \E t \in Threads : GetEntry(t)
  \/ \E t \in Threads : GetRemove(t)
  \/ \E t \in Threads : GetAppend(t)
  \/ \E t \in Threads : GetLocker(t)
  \/ \E t \in Threads : PutCheck(t)
  \/ \E t \in Threads : MakeRoomStart(t)
  \/ \E t \in Threads : MakeRoomLoop(t)
  \/ \E t \in Threads : MakeRoomLocked(t)
  \/ \E t \in Threads : MakeRoomRemove(t)
  \/ \E t \in Threads : MakeRoomDel(t)
  \/ \E t \in Threads : MakeRoomEnd(t)
  \/ \E t \in Threads : PutInsert(t)
  \/ \E t \in Threads : PutAppend(t)
  \/ \E t \in Threads : ConcLockerLock(t)
  \/ \E t \in Threads : ConcLockerRelease(t)

SpecConc == InitConc /\ [][NextConc]_vars

(***************************************************************************)
(* What the claims speak of.                                               *)
(***************************************************************************)
\* The keys of the ledger.
LedgerKeys == {k \in Keys : HasKey(cached_models, k)}

\* Record r is the entry the ledger holds under its key.
InLedger(r) == r \in Range(cached_models)

\* Record r is alive and its lock count is > 0.
Pinned(r) == heap[r] # Free /\ locked(heap[r])

\* The entry of key k (k in the ledger).
Entry(k) == heap[Lookup(cached_models, k)]

\* Every entry of the ledger is pinned.
AllPinned == \A r \in Range(cached_models) : locked(heap[r])

\* The stack without the keys outside S.
StackOf(st, S) == SelectSeq(st, LAMBDA k : k \in S)

\* k comes before j in the sequence s of distinct keys.
Before(s, k, j) ==
  \E a, b \in 1 .. Len(s) : a < b /\ s[a] = k /\ s[b] = j

\* The sizes of the entries of the keys S in the ledger.
SizeOfKeys(S) == SumSizes(heap, {Lookup(cached_models, k) : k \in S})

\* The step is the return of a call of make_room, by itself or within put.
MakeRoomReturns == last'.op = "make_room" \/ (last'.op = "put" /\ ~HasKey(cached_models, last'.key))

----------------------------------------------------------------------------
\* C1 (pin safety under concurrency), as claimed: in every state reached by
\* threads running get, lock, unlock, make_room and put concurrently, an
\* entry whose lock count is > 0 is in the ledger, and an entry a locker
\* moved into the execution device and still pins is still there.
C1_PinSafety ==
  \A r \in RecIds :
    Pinned(r) =>
      /\ InLedger(r)
      /\ \A t \in Threads :
           locker[t].rec = r /\ locker[t].moved => heap[r].device = execution_device

----------------------------------------------------------------------------
\* C2: make_room never removes a pinned entry.  At the return of make_room
\* (called by itself or by put) every entry that was pinned is still in the
\* ledger and in the stack, the keys that stay keep their order in the
\* stack, every key removed was unpinned, and the call raises nothing; with
\* A pinned, B of 4 units unpinned and 6 units asked, B alone is removed.
C2_MakeRoomKeepsPinned ==
  [][MakeRoomReturns =>
       /\ last'.exc = None
       /\ \A r \in RecIds :
            InLedger(r) /\ Pinned(r) =>
              InLedger(r)' /\ heap[r].key \in Range(cache_stack')
       /\ \A k \in last'.evicted : ~locked(Entry(k))
       /\ StackOf(cache_stack', LedgerKeys) = StackOf(cache_stack, LedgerKeys')
       /\ ( /\ last'.op = "make_room" /\ last'.size = 6
            /\ LedgerKeys = {"A", "B"}
            /\ Entry("A").size = 4 /\ Entry("B").size = 4
            /\ locked(Entry("A")) /\ ~locked(Entry("B")) )
          => last'.evicted = {"B"} /\ LedgerKeys' = {"A"}
    ]_vars

\* C2's case: make_room(6) has returned, it removed the unpinned B and the
\* pinned A of 4 units is what the ledger holds.
C2_Witness ==
  /\ last.op = "make_room" /\ last.size = 6 /\ last.exc = None
  /\ last.evicted = {"B"}
  /\ LedgerKeys = {"A"} /\ locked(Entry("A")) /\ Entry("A").size = 4
  /\ cache_stack = <<"A">>

----------------------------------------------------------------------------
\* C3, as claimed: no step of put, get, lock, unlock, make_room,
\* offload_unlocked_models or move_model_to_device, a move that fails
\* part-way included, removes from the ledger an entry whose lock count
\* is > 0.
C3_NoPinnedRemoval ==
  [][\A r \in RecIds : InLedger(r) /\ Pinned(r) => InLedger(r)']_vars

\* C3, amended: an entry leaves the ledger only by eviction (make_room, by
\* itself or within put) or by a transfer that fails part-way, and the only
\* step that removes an entry whose lock count is > 0 is a lock() whose
\* transfer fails.
C3_PinnedRemovedOnlyByFailedMove ==
  [][\A r \in RecIds :
       InLedger(r) /\ ~InLedger(r)' =>
         /\ last'.op \in {"make_room", "put"}
            \/ (last'.op \in {"lock", "offload"} /\ last'.exc = "TransferError")
         /\ Pinned(r) => last'.op = "lock" /\ last'.exc = "TransferError"
    ]_vars

\* C3's case: a lock() whose transfer failed has removed an entry from the
\* ledger that another locker still pins.
C3_Witness ==
  /\ last.op = "lock" /\ last.exc = "TransferError" /\ last.evicted # {}
  /\ \E r \in RecIds : Pinned(r) /\ ~InLedger(r) /\ heap[r].key \in last.evicted

----------------------------------------------------------------------------
\* C4: the locker get returns holds a pin from its construction to its
\* release.  While a caller holds a locker the lock count of its entry
\* is > 0, a successful get returns such a locker for the entry of the key,
\* and no make_room and no put in between removes that entry from the
\* ledger or touches the locker.
C4_LockerHoldsPin ==
  [][/\ \A t \in Threads :
          locker'[t] # NoLocker =>
            heap'[locker'[t].rec] # Free /\ locked(heap'[locker'[t].rec])
     /\ (last'.op = "get" /\ last'.exc = None) =>
          \E t \in Threads :
            /\ locker[t] = NoLocker
            /\ locker'[t].rec = Lookup(cached_models', last'.key)
     /\ last'.op \in {"make_room", "put"} =>
          \A t \in Threads :
            locker[t] # NoLocker /\ InLedger(locker[t].rec) =>
              InLedger(locker[t].rec)' /\ locker'[t] = locker[t]
    ]_vars

\* C4's case: a put has evicted another entry to make room, is over the
\* ceiling all the same, and the entry a caller holds a locker of is still
\* in the ledger.
C4_Witness ==
  /\ last.op = "put" /\ last.evicted # {}
  /\ cache_size(Cache) > max_cache_size
  /\ \E t \in Threads : locker[t] # NoLocker /\ InLedger(locker[t].rec)

----------------------------------------------------------------------------
\* C5 (budget convergence): when make_room(N) has returned, the sizes of the
\* entries of the ledger plus N are within max_cache_size, or every entry
\* left in the ledger is pinned.
C5_BudgetConvergence ==
  (last.op = "make_room" /\ last.exc = None) =>
     \/ cache_size(Cache) + last.size <= max_cache_size
     \/ AllPinned

\* C5's case: make_room has removed what it could and returned with the
\* request still not fitting: what is left is pinned.
C5_Witness ==
  /\ last.op = "make_room" /\ last.exc = None /\ last.evicted # {}
  /\ cache_size(Cache) + last.size > max_cache_size
  /\ cached_models # <<>> /\ AllPinned

----------------------------------------------------------------------------
\* C6 (LRU order): make_room, by itself or within put, removes unpinned
\* entries in the order of their last touch (the first put of the key or a
\* successful get of it): of two unpinned entries P and Q with P touched
\* last before Q, Q is not removed while P stays.  When the last touches
\* were B, C, A in this order, a call that removes something removes B.
C6_LruOrder ==
  [][MakeRoomReturns =>
       /\ Range(touched) = LedgerKeys
       /\ \A P, Q \in LedgerKeys :
            ( /\ ~locked(Entry(P)) /\ ~locked(Entry(Q))
              /\ Before(touched, P, Q)
              /\ Q \in last'.evicted ) => P \in last'.evicted
       /\ (touched = <<"B", "C", "A">> /\ ~locked(Entry("B")) /\ last'.evicted # {})
            => "B" \in last'.evicted
    ]_vars

\* C6's case: after the touches A, B, C, A (the last one a get, whose locker
\* pins A) make_room has removed one entry, B, and C and A stay.
C6_Witness ==
  /\ last.op = "make_room" /\ last.evicted = {"B"}
  /\ touched = <<"C", "A">> /\ cache_stack = <<"C", "A">>
  /\ locked(Entry("A")) /\ ~locked(Entry("C"))

----------------------------------------------------------------------------
\* C7 (minimal eviction): every entry make_room removes, by itself or within
\* put, is removed while the sizes in the ledger plus the bytes needed are
\* above max_cache_size, so nothing is removed when the request fits.  With
\* max_cache_size 10, A and B of 4 units put in this order and no pin, the
\* put of C of 4 units removes A alone and leaves B and C, 8 units.
C7_MinimalEviction ==
  [][MakeRoomReturns /\ last'.exc = None =>
       /\ \A k \in last'.evicted :
            cache_size(Cache)
              - SizeOfKeys({j \in last'.evicted : Before(cache_stack, j, k)})
              + last'.size > max_cache_size
       /\ cache_size(Cache) + last'.size <= max_cache_size => last'.evicted = {}
       /\ ( /\ last'.op = "put" /\ last'.key = "C" /\ last'.size = 4
            /\ cache_stack = <<"A", "B">> /\ LedgerKeys = {"A", "B"}
            /\ Entry("A").size = 4 /\ Entry("B").size = 4
            /\ ~locked(Entry("A")) /\ ~locked(Entry("B")) )
          => /\ last'.evicted = {"A"}
             /\ LedgerKeys' = {"B", "C"}
             /\ cache_size(Cache)' = 8
    ]_vars

\* C7's case: the put of C has removed A alone; B and C are resident with
\* 8 units.
C7_Witness ==
  /\ last.op = "put" /\ last.key = "C" /\ last.size = 4 /\ last.evicted = {"A"}
  /\ cache_stack = <<"B", "C">> /\ cache_size(Cache) = 8
  /\ max_cache_size = 10

----------------------------------------------------------------------------
\* C8 (the budget is soft): put of a key that is not in the ledger raises
\* nothing and ends with the key in the ledger, its entry in the storage
\* device, not loaded, unpinned and of the size of the handle, whatever the
\* sizes and the pins of the resident entries.
C8_PutAlwaysInserts ==
  [][\A k \in Keys :
       (last'.op = "put" /\ last'.key = k /\ ~HasKey(cached_models, k)) =>
         /\ last'.exc = None
         /\ HasKey(cached_models', k)
         /\ Entry(k)'.device = storage_device
         /\ ~Entry(k)'.loaded
         /\ Entry(k)'.locks = 0
         /\ Entry(k)'.size = last'.size
         /\ k \in Range(cache_stack')
    ]_vars

\* C8's case: put has inserted an entry larger than max_cache_size by
\* itself while every other resident entry is pinned.
C8_Witness ==
  /\ last.op = "put" /\ last.exc = None /\ HasKey(cached_models, last.key)
  /\ Entry(last.key).size > max_cache_size
  /\ Len(cached_models) >= 2
  /\ \A k \in LedgerKeys \ {last.key} : locked(Entry(k))

----------------------------------------------------------------------------
\* C9 (idempotent put): put of a key that is in the ledger changes nothing:
\* the ledger and its order, the records (handle, size, device, lock
\* count), the stack, the statistics and the lockers stay as they are.
C9_IdempotentPut ==
  [][\A k \in Keys :
       (last'.op = "put" /\ last'.key = k /\ HasKey(cached_models, k)) =>
         /\ last'.exc = None
         /\ UNCHANGED <<cached_models, cache_stack, heap, stats, locker, touched>>
    ]_vars

\* C9's case: a handle of another size was put under a key that is not the
\* most recent of the stack; the entry keeps its size and its place.
C9_Witness ==
  /\ last.op = "put" /\ last.exc = None /\ HasKey(cached_models, last.key)
  /\ Entry(last.key).size # last.size
  /\ Len(cache_stack) >= 2 /\ cache_stack[1] = last.key

----------------------------------------------------------------------------
\* C10: get of a key that is not in the ledger raises IndexError, adds 1 to
\* the miss counter of an attached CacheStats and changes nothing else of
\* it, and leaves the ledger, the stack, the records and the lockers as they
\* are; with new statistics the counters are misses = 1 and hits = 0 after.
C10_GetMiss ==
  [][\A k \in Keys :
       (last'.op = "get" /\ last'.key = k /\ ~HasKey(cached_models, k)) =>
         /\ last'.exc = "IndexError"
         /\ UNCHANGED <<cached_models, cache_stack, heap, locker>>
         /\ stats # NoStats => stats' = [stats EXCEPT !.misses = @ + 1]
         /\ stats = NoStats => stats' = NoStats
         /\ stats = CacheStats => stats'.misses = 1 /\ stats'.hits = 0
    ]_vars

\* C10's case: the first call on a cache with new statistics was a get of an
\* absent key.
C10_Witness ==
  /\ last.op = "get" /\ last.exc = "IndexError"
  /\ stats # NoStats /\ stats.misses = 1 /\ stats.hits = 0
  /\ cached_models = <<>> /\ calls = 2

----------------------------------------------------------------------------
\* C11: get of a key that is in the ledger raises nothing, adds 1 to the hit
\* counter of an attached CacheStats and leaves the miss counter as it is,
\* moves the key to the tail of the stack with the other keys in the order
\* they had, and leaves the ledger as it is.
C11_GetHit ==
  [][\A k \in Keys :
       (last'.op = "get" /\ last'.key = k /\ HasKey(cached_models, k)) =>
         /\ last'.exc = None
         /\ stats # NoStats =>
              /\ stats'.hits = stats.hits + 1
              /\ stats'.misses = stats.misses
         /\ cache_stack' = Append(SelectSeq(cache_stack, LAMBDA x : x # k), k)
         /\ cached_models' = cached_models
         /\ LedgerKeys' = LedgerKeys
    ]_vars

\* C11's case: with statistics attached, the first get hit the oldest of at
\* least two keys, which is now the most recent one.
C11_Witness ==
  /\ last.op = "get" /\ last.exc = None
  /\ stats # NoStats /\ stats.hits = 1 /\ stats.misses = 0
  /\ Len(cache_stack) >= 2 /\ cache_stack[Len(cache_stack)] = last.key
  /\ cached_models[1][1] = last.key

\* The stack holds each key of the ledger once and no other key.
StackMatchesLedger ==
  /\ Range(cache_stack) = LedgerKeys
  /\ Len(cache_stack) = Cardinality(LedgerKeys)

----------------------------------------------------------------------------
\* C12 (the stack invariant): when put, get, lock, unlock, make_room and
\* offload_unlocked_models run one at a time, with transfers that succeed
\* or fail, the stack holds each key of the ledger exactly once and no key
\* that is not in the ledger.
C12_StackInvariant == StackMatchesLedger

\* C12's case: a transfer has failed and removed an entry while another
\* entry stays in the ledger.
C12_Witness ==
  /\ last.op \in {"lock", "offload"} /\ last.exc = "TransferError"
  /\ Len(cached_models) >= 1
  /\ StackMatchesLedger

----------------------------------------------------------------------------
\* C13 (put, get and make_room as critical sections), as claimed: whenever
\* no call of a thread is running, after any interleaving of the calls of
\* concurrent threads, the stack holds each key of the ledger exactly once
\* and no key that is not in the ledger.
C13_QuiescentStackInvariant ==
  (\A t \in Threads : thr[t].pc = "idle") => StackMatchesLedger

----------------------------------------------------------------------------
\* The records a transfer can be asked for: those of the ledger and those
\* lockers hold.
Transferable ==
  (Range(cached_models) \cup {locker[t].rec : t \in Threads}) \ {NoRec}

\* Every tensor of record rec is in device.
WeightsIn(rec, device) == \A n \in DOMAIN rec.weights : rec.weights[n].device = device

----------------------------------------------------------------------------
\* C15 (transfer fidelity): an entry with a state dict that went from the
\* storage device into the execution device and comes back, both transfers
\* succeeding, has the tensors it had when it was put: the same names, none
\* missing and none added, the same data, all in the storage device, and
\* its device field is the storage device.  While it is in the execution
\* device it has the same names and data there.
C15_RoundTrip ==
  [][/\ \A r \in Transferable :
          (heap[r].state_dict # NoStateDict /\ heap[r].device = storage_device) =>
            LET there == move_model_to_device(Cache, r, execution_device, "no")
                back == move_model_to_device(there.c, r, storage_device, "no")
            IN  /\ there.exc = None /\ back.exc = None
                /\ there.c.hp[r].device = execution_device
                /\ there.c.hp[r].weights =
                     model_to(weights_of(heap[r].model), execution_device)
                /\ back.c.hp[r].device = storage_device
                /\ back.c.hp[r].weights = weights_of(heap[r].model)
                /\ DOMAIN back.c.hp[r].weights = heap[r].model.params
     /\ \A r \in RecIds :
          ( /\ heap[r] # Free /\ heap'[r] # Free
            /\ heap[r].state_dict # NoStateDict
            /\ heap[r].device = execution_device
            /\ heap'[r].device = storage_device ) =>
            /\ heap'[r].weights = weights_of(heap[r].model)
            /\ DOMAIN heap'[r].weights = heap[r].model.params
            /\ heap'[r].state_dict = weights_of(heap[r].model)
    ]_vars

\* C15's case: offload_unlocked_models has brought back to the storage
\* device an entry a locker had moved into the execution device; it holds
\* the tensors of its put.
C15_Witness ==
  /\ last.op = "offload" /\ last.exc = None
  /\ \E r \in last.moved :
       /\ r \in Range(cached_models)
       /\ heap[r].state_dict # NoStateDict
       /\ heap[r].device = storage_device
       /\ heap[r].weights = weights_of(heap[r].model)

----------------------------------------------------------------------------
\* The entries of the ledger that are unpinned and in the execution device
\* (by their device field or their loaded flag).
UnpinnedLoaded ==
  {r \in Range(cached_models) :
     ~locked(heap[r]) /\ (heap[r].loaded \/ heap[r].device = execution_device)}

\* C16 (execution-pool convergence): when offload_unlocked_models(n)
\* returns and no transfer has failed, either the bytes allocated in the
\* execution device plus n are within max_vram_cache_size, or no entry of
\* the ledger is both unpinned and loaded in the execution device.
C16_OffloadConvergence ==
  [][(last'.op = "offload" /\ last'.exc = None) =>
       \/ cuda_memory_allocated(Cache)' + last'.size <= max_vram_cache_size
       \/ UnpinnedLoaded' = {}
    ]_vars

\* C16's case: offload_unlocked_models has moved an entry back, a pinned
\* entry stays in the execution device and the request still does not fit.
C16_Witness ==
  /\ last.op = "offload" /\ last.exc = None /\ last.moved # {}
  /\ cuda_memory_allocated(Cache) + last.size > max_vram_cache_size
  /\ UnpinnedLoaded = {}
  /\ \E r \in Range(cached_models) :
       locked(heap[r]) /\ heap[r].device = execution_device

----------------------------------------------------------------------------
\* C17 (smallest first, and no more than needed): when
\* offload_unlocked_models(n) returns and no transfer has failed, every
\* unpinned entry it leaves in the execution device is at least as large
\* as every entry it moved back; each entry it moved back was moved while
\* the bytes in the execution device plus n were above
\* max_vram_cache_size, so it moves nothing when they fit at the start.
C17_SmallestFirst ==
  [][(last'.op = "offload" /\ last'.exc = None) =>
       LET order == SortedBySize(heap, cached_models)
       IN  /\ \A a \in UnpinnedLoaded', b \in last'.moved :
                heap'[a].size >= heap[b].size
           /\ \A b \in last'.moved :
                /\ heap[b].device = execution_device
                /\ heap'[b].device = storage_device
                /\ cuda_memory_allocated(Cache)
                     - SumSizes(heap, {a \in last'.moved : Before(order, a, b)})
                     + last'.size > max_vram_cache_size
           /\ cuda_memory_allocated(Cache) + last'.size <= max_vram_cache_size
                => last'.moved = {} /\ heap' = heap
    ]_vars

\* C17's case: offload_unlocked_models moved a smaller entry back and left
\* a larger unpinned one in the execution device, the request fitting now.
C17_Witness ==
  /\ last.op = "offload" /\ last.exc = None
  /\ \E a \in UnpinnedLoaded, b \in last.moved :
       /\ b \in Range(cached_models)
       /\ heap[a].size > heap[b].size
  /\ cuda_memory_allocated(Cache) + last.size <= max_vram_cache_size

----------------------------------------------------------------------------
\* C18 (victims of the storage pool only), as claimed: every entry that
\* make_room removes, called by itself or by put, is in the storage device
\* and not loaded; an unpinned entry that is in the execution device stays
\* in the ledger.
C18_VictimsInStorage ==
  [][MakeRoomReturns =>
       \A k \in last'.evicted :
         /\ Entry(k).device = storage_device
         /\ ~Entry(k).loaded
    ]_vars

----------------------------------------------------------------------------
\* C19 (get moves no model): a get, hit or miss, leaves the device, the
\* loaded flag, the tensors and the state dict of every record as they
\* are, and the ledger too; it changes the stack, the statistics and, by
\* the locker it returns, the lock count of the entry it hit.
C19_GetMovesNothing ==
  [][last'.op = "get" =>
       /\ cached_models' = cached_models
       /\ last'.moved = {}
       /\ \A r \in RecIds :
            heap[r] # Free =>
              /\ heap'[r] # Free
              /\ heap'[r] = [heap[r] EXCEPT !.locks = heap'[r].locks]
    ]_vars

\* C19's case: a get has hit an entry that is in the storage device and
\* not loaded; it is there still, pinned by the locker.
C19_Witness ==
  /\ last.op = "get" /\ last.exc = None
  /\ HasKey(cached_models, last.key)
  /\ Entry(last.key).device = storage_device
  /\ ~Entry(last.key).loaded
  /\ WeightsIn(Entry(last.key), storage_device)
  /\ locked(Entry(last.key))

----------------------------------------------------------------------------
\* C20 (statistics are monotone): once a CacheStats is attached, no call
\* lowers hits, misses or high_watermark; a get adds 1 to exactly one of
\* hits and misses and leaves the other; after a get that returns, the
\* high watermark is at least the sizes in the ledger.
C20_StatsMonotone ==
  [][stats # NoStats =>
       /\ stats' # NoStats
       /\ stats'.hits >= stats.hits
       /\ stats'.misses >= stats.misses
       /\ stats'.high_watermark >= stats.high_watermark
       /\ last'.op = "get" =>
            \/ stats'.hits = stats.hits + 1 /\ stats'.misses = stats.misses
            \/ stats'.hits = stats.hits /\ stats'.misses = stats.misses + 1
       /\ last'.op # "get" =>
            stats'.hits = stats.hits /\ stats'.misses = stats.misses
       /\ (last'.op = "get" /\ last'.exc = None) =>
            stats'.high_watermark >= cache_size(Cache)'
    ]_vars

\* C20's case: after a hit, make_room or put has removed entries and the
\* high watermark stays above the sizes in the ledger.
C20_Witness ==
  /\ stats # NoStats /\ stats.hits >= 1
  /\ last.op \in {"make_room", "put"} /\ last.evicted # {}
  /\ stats.high_watermark > cache_size(Cache)


(***************************************************************************)
(* C21: pin counts are never negative.  In every reachable state the lock  *)
(* count of every record is >= 0 and the record is reported locked exactly *)
(* when its count is > 0; a release of a record whose count is 0, by a     *)
(* locker or by a caller without one, raises the fault and leaves the      *)
(* count at 0.                                                             *)
(***************************************************************************)
C21_PinsNonNegative ==
  [][/\ \A r \in RecIds :
          heap'[r] # Free =>
            /\ heap'[r].locks >= 0
            /\ locked(heap'[r]) <=> heap'[r].locks > 0
      /\ \A k \in LedgerKeys :
          last'.op = "release" /\ last'.key = k /\ Entry(k).locks = 0 =>
            /\ last'.exc = "PinFault"
            /\ heap'[Lookup(cached_models, k)].locks = 0
      /\ \A t \in Threads :
          /\ last'.op = "unlock"
          /\ locker[t] # NoLocker /\ locker'[t] = NoLocker
          /\ heap[locker[t].rec].locks = 0
          => last'.exc = "PinFault"]_vars

\* A release that no acquire matches has raised the fault: the count of the
\* entry is 0 still.
C21_Witness ==
  /\ last.op = "release"
  /\ last.exc = "PinFault"
  /\ HasKey(cached_models, last.key)
  /\ Entry(last.key).locks = 0

----------------------------------------------------------------------------
\* C22 (no pinned entry is relocated by someone else):
\* offload_unlocked_models, whether a transfer fails or not, leaves the
\* device and the loaded flag of every record whose lock count is > 0 as
\* they were; and in every step a record changes its device only if its
\* lock count was 0 or the step is the lock of a Locker that holds the
\* record and had not moved it yet.
C22_PinnedStaysPut ==
  [][\A r \in RecIds :
       heap[r] # Free /\ heap'[r] # Free =>
         /\ last'.op = "offload" /\ locked(heap[r]) =>
              /\ heap'[r].device = heap[r].device
              /\ heap'[r].loaded = heap[r].loaded
         /\ heap'[r].device # heap[r].device =>
              \/ heap[r].locks = 0
              \/ /\ last'.op = "lock"
                 /\ \E t \in Threads :
                      /\ locker[t].rec = r /\ ~locker[t].moved
                      /\ locker'[t] # NoLocker /\ locker'[t].moved
    ]_vars

\* C22's case: offload_unlocked_models has moved an unpinned entry back
\* while the entry a Locker holds in the execution device stayed there.
C22_Witness ==
  /\ last.op = "offload" /\ last.moved # {}
  /\ \E t \in Threads :
       /\ locker[t] # NoLocker /\ locker[t].moved
       /\ heap[locker[t].rec].device = execution_device
       /\ heap[locker[t].rec].loaded
       /\ locker[t].rec \notin last.moved

(***************************************************************************)
(* DiskImageStorage (invokeai/app/services/image_storage.py): the images   *)
(* on disk and the cache of the images that were opened or saved.  One     *)
(* image type is modelled; a file name is <<stem, extension>> and a path   *)
(* is <<folder, file name>>.                                               *)
(***************************************************************************)
\* self.__max_cache_size = 10
image_max_cache_size == 10

\* The storage: its cache, its queue of ids and the files on disk.
Images == [cache |-> image_cache, ids |-> cache_ids, files |-> files]

\* get_path: the basename, in the folder of the images or of the thumbnails
get_path(image_name, is_thumbnail) ==
  <<IF is_thumbnail THEN "thumbnails" ELSE "images", image_name>>

\* get_thumbnail_name: the stem of the image name with the extension webp
get_thumbnail_name(image_name) == <<image_name[1], "webp">>

\* cache_id = self.__cache_ids.get(); del self.__cache[cache_id]
evict_oldest(s) ==
  LET cache_id == Head(s.ids)
  IN  IF cache_id \in s.cache
      THEN [s |-> [s EXCEPT !.ids = Tail(@), !.cache = @ \ {cache_id}], exc |-> None]
      ELSE [s |-> [s EXCEPT !.ids = Tail(@)], exc |-> "KeyError"]

\* __set_cache
set_cache(s, image_name) ==
  IF image_name \in s.cache THEN [s |-> s, exc |-> None]
  ELSE LET s1 == [s EXCEPT !.cache = @ \cup {image_name},
                           !.ids = Append(@, image_name)]
       IN  IF Cardinality(s1.cache) > image_max_cache_size
           THEN evict_oldest(s1)
           ELSE [s |-> s1, exc |-> None]

\* DiskImageStorage.get
image_get(s, image_name) ==
  LET image_path == get_path(image_name, FALSE)
  IN  IF image_path \in s.cache THEN [s |-> s, exc |-> None]
      ELSE IF image_name \notin s.files THEN [s |-> s, exc |-> "FileNotFoundError"]
      ELSE set_cache(s, image_path)

\* DiskImageStorage.save
image_save(s, image_name) ==
  LET image_path == get_path(image_name, FALSE)
      thumbnail_path == get_path(get_thumbnail_name(image_name), TRUE)
      i == set_cache([s EXCEPT !.files = @ \cup {image_name}], image_path)
  IN  IF i.exc # None THEN i ELSE set_cache(i.s, thumbnail_path)

\* DiskImageStorage.delete
image_delete(s, image_name) ==
  LET image_path == get_path(image_name, FALSE)
      thumbnail_path == get_path(image_name, TRUE)
  IN  [s |-> [s EXCEPT !.files = @ \ {image_name},
                       !.cache = @ \ {image_path, thumbnail_path}],
       exc |-> None]

\* The image names callers have used, and the first unused one.
UsableNames ==
  LET used == {i \in DOMAIN ImageNames :
                 \/ <<ImageNames[i], "png">> \in files
                 \/ get_path(<<ImageNames[i], "png">>, FALSE) \in Range(cache_ids)}
      new == {i \in DOMAIN ImageNames : \A j \in 1 .. i - 1 : j \in used}
  IN  {<<ImageNames[i], "png">> : i \in used \cup new}

\* A call of the storage returns: r is its result.
ImageCommit(r, op, image_name) ==
  /\ calls < MaxImageCalls
  /\ calls' = calls + 1
  /\ image_cache' = r.s.cache
  /\ cache_ids' = r.s.ids
  /\ files' = r.s.files
  /\ last' = Returned(op, image_name[1], 0, r.exc)
  /\ UNCHANGED <<cached_models, cache_stack, heap, stats, locker, touched, thr>>

ImageGet(image_name) == ImageCommit(image_get(Images, image_name), "image_get", image_name)

ImageSave(image_name) == ImageCommit(image_save(Images, image_name), "image_save", image_name)

ImageDelete(image_name) ==
  ImageCommit(image_delete(Images, image_name), "image_delete", image_name)

NextImages ==
  \/ \E image_name \in UsableNames : ImageGet(image_name)
  \/ \E image_name \in UsableNames : ImageSave(image_name)
  \/ \E image_name \in UsableNames : ImageDelete(image_name)

SpecImages == Init /\ [][NextImages]_vars

----------------------------------------------------------------------------
\* What the make_room of the step did, pass by pass.
MakeRoomTrace == make_room(Cache, last'.size).trace

\* The places of the events ev in a trace.
EventsOf(trace, ev) == {i \in DOMAIN trace : trace[i].ev = ev}

\* C23 (garbage collection is batched per eviction pass): a call of
\* make_room, by itself or by put, runs gc.collect() exactly once when it
\* removed one entry or more, however many, and not at all when it removed
\* none; the collection comes after the last removal of the call.
C23_GcBatched ==
  [][MakeRoomReturns =>
       LET dels == EventsOf(MakeRoomTrace, "del")
           gcs == EventsOf(MakeRoomTrace, "gc")
       IN  /\ {MakeRoomTrace[i].key : i \in dels} = last'.evicted
           /\ dels = {} => gcs = {}
           /\ dels # {} => Cardinality(gcs) = 1
           /\ \A i \in dels, j \in gcs : i < j
    ]_vars

\* C23's case: one call of make_room has removed two entries or more.
C23_Witness ==
  /\ last.op \in {"make_room", "put"}
  /\ last.exc = None
  /\ Cardinality(last.evicted) >= 2

----------------------------------------------------------------------------
\* C27 (make_room always terminates): a call of make_room, by itself or by
\* put, with whatever size and lock counts, returns without a fault after
\* at most one pass of its loop per key of the recency stack; after every
\* pass its running total current_size is the sum of the sizes of the
\* entries of the ledger.
C27_MakeRoomTerminates ==
  [][MakeRoomReturns =>
       LET passes == EventsOf(MakeRoomTrace, "del") \cup EventsOf(MakeRoomTrace, "skip")
       IN  /\ last'.exc = None
           /\ {MakeRoomTrace[i].key : i \in EventsOf(MakeRoomTrace, "del")}
                = last'.evicted
           /\ Cardinality(passes) <= Len(cache_stack)
           /\ \A i \in passes :
                MakeRoomTrace[i].current_size = MakeRoomTrace[i].cache_size
    ]_vars

\* C27's case: make_room was asked for more than the ceiling holds, every
\* entry that is left is pinned and the loop has removed an entry and
\* passed over the pinned ones.
C27_Witness ==
  /\ last.op \in {"make_room", "put"}
  /\ last.size > max_cache_size
  /\ last.evicted # {}
  /\ \E r \in Range(cached_models) : heap[r].key # last.key /\ locked(heap[r])

----------------------------------------------------------------------------
\* C24 (the snapshot is retained across transfers): move_model_to_device,
\* to the execution device or to the storage device, leaves the state_dict
\* and the size of the record as they were at put, whether it succeeds,
\* fails at load_state_dict or at to(), or returns at once because the
\* record is in the target device; and no step of the cache changes the
\* state_dict or the size of a record.
C24_SnapshotRetained ==
  [][\A r \in RecIds :
       heap[r] # Free =>
         /\ \A dev \in {storage_device, execution_device},
              fails \in {"no"} \cup FailPoints :
              LET mv == move_model_to_device(Cache, r, dev, fails).c.hp[r]
              IN  /\ mv.state_dict = heap[r].state_dict
                  /\ mv.size = heap[r].size
         /\ heap'[r] # Free =>
              /\ heap'[r].state_dict = heap[r].state_dict
              /\ heap'[r].size = heap[r].size
              /\ heap'[r].state_dict = state_dict_of(heap[r].model)
              /\ heap'[r].size = calc_model_size_by_data(heap[r].model)
    ]_vars

\* C24's case: the lock of a Locker has moved the handle into the
\* execution device, its weights are there and the snapshot of the entry
\* is in the storage device still.
C24_Witness ==
  /\ last.op = "lock" /\ last.exc = None
  /\ \E t \in Threads :
       /\ locker[t] # NoLocker /\ locker[t].moved
       /\ LET e == heap[locker[t].rec]
          IN  /\ e.device = execution_device
              /\ e.state_dict # NoStateDict
              /\ \A n \in DOMAIN e.weights : e.weights[n].device = execution_device
              /\ \A n \in DOMAIN e.state_dict : e.state_dict[n].device = storage_device

----------------------------------------------------------------------------
\* The cache after the step.
CacheAfter ==
  [cm |-> cached_models', st |-> cache_stack', hp |-> heap', stats |-> stats']

\* The keys make_room(n) would remove from cache c, in the order of their
\* removal.
Victims(c, n) ==
  LET dels == SelectSeq(make_room(c, n).trace, LAMBDA e : e.ev = "del")
  IN  [i \in DOMAIN dels |-> dels[i].key]

\* C28 (offload_unlocked_models relocates but never evicts): when
\* offload_unlocked_models returns and no transfer has failed, the ledger
\* holds the same keys with the same records, every record has the size
\* and the lock count it had, the recency stack is in the same order, and
\* make_room would remove the same keys in the same order as before.
C28_OffloadKeepsLedger ==
  [][(last'.op = "offload" /\ last'.exc = None) =>
       /\ cached_models' = cached_models
       /\ cache_stack' = cache_stack
       /\ last'.evicted = {}
       /\ \A r \in Range(cached_models) :
            /\ heap'[r] # Free
            /\ heap'[r].size = heap[r].size
            /\ heap'[r].locks = heap[r].locks
       /\ \A n \in RequestSizes \cup {max_cache_size + 2} :
            Victims(CacheAfter, n) = Victims(Cache, n)
    ]_vars

\* C28's case: offload_unlocked_models has moved back the entry at the
\* bottom of the recency stack, which is there still, below an other key.
C28_Witness ==
  /\ last.op = "offload" /\ last.exc = None
  /\ Len(cache_stack) >= 2
  /\ HasKey(cached_models, cache_stack[1])
  /\ Lookup(cached_models, cache_stack[1]) \in last.moved
  /\ ~Entry(cache_stack[1]).loaded

----------------------------------------------------------------------------
\* The ledgers that hold the entries of this ledger, put in another order.
Reordered ==
  {[i \in DOMAIN cached_models |-> cached_models[p[i]]] :
     p \in PutOrders(Len(cached_models))}

\* Ledger cm holds the entries of equal size in the order of this ledger.
TiesKept(cm) ==
  \A a, b \in Range(cached_models) :
    heap[a].size = heap[b].size /\ Before(cached_models, a, b) => Before(cm, a, b)

\* The call of the step, made on the cache whose ledger is cm and which is
\* this cache otherwise, removes (make_room) or moves back
\* (offload_unlocked_models, no transfer failing) the keys the step did, in
\* the same order, and ends with the stack, the records and the entries of
\* the step.
SameOutcome(cm) ==
  LET c2 == [Cache EXCEPT !.cm = cm]
      none == <<NoRec, "-">>
  IN  /\ last'.op = "make_room" =>
           LET r == make_room(c2, last'.size)
           IN  /\ Victims(c2, last'.size) = Victims(Cache, last'.size)
               /\ Range(Victims(c2, last'.size)) = last'.evicted
               /\ r.exc = last'.exc
               /\ r.c.st = cache_stack'
               /\ Range(r.c.cm) = Range(cached_models')
      /\ last'.op = "offload" /\ last'.exc = None =>
           LET r == offload_unlocked_models(c2, last'.size, none)
           IN  /\ r.trace = offload_unlocked_models(Cache, last'.size, none).trace
               /\ Range(r.trace) = {heap[x].key : x \in last'.moved}
               /\ r.exc = None
               /\ r.c.hp = heap'
               /\ r.c.st = cache_stack'
               /\ Range(r.c.cm) = Range(cached_models')

----------------------------------------------------------------------------
\* C26 (entry deletion is only attempted on an entry that is in the cache),
\* as claimed: whenever a transfer fails in a call, the record whose
\* transfer failed is the entry of its key in the ledger, its key is in the
\* recency stack, and the call raises the error of the transfer.
C26_DeleteOnlyPresent ==
  [][last'.failed # NoRec =>
       /\ InLedger(last'.failed)
       /\ heap[last'.failed].key \in Range(cache_stack)
       /\ last'.exc = "TransferError"
    ]_vars

----------------------------------------------------------------------------
\* C30 (a get that races with eviction has two outcomes only), as claimed:
\* when the get of a thread returns, whatever the other thread did in the
\* meantime, either it returns a Locker whose record is the entry of the
\* key in the ledger at that moment, or it raises the not-found error at
\* its first test, having counted a miss and no hit.
C30_GetOutcomes ==
  [][\A t \in Threads :
       (thr[t].op = "get" /\ thr[t].pc # "idle" /\ thr'[t].pc = "idle") =>
         \/ /\ last'.exc = None
            /\ locker'[t] # NoLocker
            /\ HasKey(cached_models', thr[t].key)
            /\ Lookup(cached_models', thr[t].key) = locker'[t].rec
         \/ /\ last'.exc = "IndexError"
            /\ thr[t].pc = "get_check"
            /\ stats'.misses = stats.misses + 1
            /\ stats'.hits = stats.hits
    ]_vars

----------------------------------------------------------------------------
\* The number of places of the id queue that hold path p.
Pending(p) == Cardinality({i \in DOMAIN cache_ids : cache_ids[i] = p})

\* C29 (the image cache of DiskImageStorage stays bounded and consistent),
\* as claimed: after any sequence of get, save and delete calls the cache
\* holds at most image_max_cache_size images, every cached path is in the
\* id queue exactly once, and no get or save has failed while it removed
\* the oldest id.
C29_ImageCacheBounded ==
  /\ Cardinality(image_cache) <= image_max_cache_size
  /\ \A p \in image_cache : Pending(p) = 1
  /\ last.op \in {"image_get", "image_save"} => last.exc # "KeyError"
=============================================================================
